---------------------------- MODULE Spec2Model ----------------------------
(***************************************************************************)
(* Radar RH (streamlit_app.py): the risk-scoring engine, the risk          *)
(* classifier, the spreadsheet batch processor and the upload page's       *)
(* session state.                                                          *)
(*                                                                         *)
(* Representation of Python values                                         *)
(*   - tempo_casa (float, years) is an integer number of quarter years     *)
(*     (Ano == 4), so that 0.25, 0.5, 1.0 and 2.0 years and the product    *)
(*     tempo_casa * 20 of line 205 are whole numbers;                      *)
(*   - the weights of SCORING_CONFIG are whole percents (0.35 is 35), so   *)
(*     a score is an integer number of hundredths of a point (21.0 is      *)
(*     2100): the arithmetic is exact;                                     *)
(*   - SCORING_CONFIG is a module-level dict the functions read at every   *)
(*     call; the program never writes it;                                  *)
(*   - None is the empty sequence and a present value x is <<x>>;          *)
(*   - a text is the sequence of its words, accents written in ASCII; a    *)
(*     formatted number of an f-string is the word "{}" and its value is   *)
(*     kept beside the text.                                               *)
(***************************************************************************)
EXTENDS Integers, Sequences, FiniteSets, TLC

VARIABLES
    scoring_config, \* the module-level dict SCORING_CONFIG, read at every call
    session_state,  \* Spec: st.session_state (employees, data_loaded)
    pagina,         \* Spec: what the last run of the upload page showed
    employee,       \* SpecScore: the Employee the engine is applied to
    df_in,             \* SpecPlanilha: the DataFrame handed to processar_planilha
    resultado,      \* SpecPlanilha: what processar_planilha returned and showed
    fatores_in,     \* SpecRecomendacoes: the argument fatores_risco
    retorno,        \* SpecRecomendacoes: what the call returned or raised
    score_in,       \* SpecNivel: the score handed to get_risk_level
    nivel           \* SpecNivel: the tier get_risk_level returned

vars == <<scoring_config, session_state, pagina, employee, df_in, resultado, fatores_in, retorno, score_in, nivel>>

---------------------------------------------------------------------------
(* Python helpers *)

None == <<>>
Some(x) == <<x>>
IsNone(o) == o = <<>>
Val(o) == o[1]

Min(a, b) == IF a <= b THEN a ELSE b
Max(a, b) == IF a >= b THEN a ELSE b

\* int(x) of a float x = n / d (d > 0): truncation toward zero
IntTrunc(n, d) == IF n >= 0 THEN n \div d ELSE -((-n) \div d)

---------------------------------------------------------------------------
(* SCORING_CONFIG *)

Ano == 4                        \* one year of tempo_casa, in grid steps
Centesimos == 100               \* one score point, in hundredths

\* the dict as the module defines it: weights in percents, tenures in grid
\* steps (0.25, 1.0 and 2.0 years)
SCORING_CONFIG ==
    [ peso_tempo_casa |-> 35, peso_pdi |-> 15, peso_treinamentos |-> 15,
      peso_linkedin |-> 25, peso_ausencias |-> 10,
      tempo_casa_critico |-> 1, tempo_casa_risco |-> 4,
      tempo_casa_estavel |-> 8,
      treinamentos_minimo |-> 1, ausencias_critico |-> 8,
      risco_baixo |-> 25, risco_medio |-> 55, risco_alto |-> 100 ]

\* SCORING_CONFIG["..."], as the functions read it
peso_tempo_casa == scoring_config.peso_tempo_casa
peso_pdi == scoring_config.peso_pdi
peso_treinamentos == scoring_config.peso_treinamentos
peso_linkedin == scoring_config.peso_linkedin
peso_ausencias == scoring_config.peso_ausencias

tempo_casa_critico == scoring_config.tempo_casa_critico
tempo_casa_risco == scoring_config.tempo_casa_risco
tempo_casa_estavel == scoring_config.tempo_casa_estavel

treinamentos_minimo == scoring_config.treinamentos_minimo
ausencias_critico == scoring_config.ausencias_critico

risco_baixo == scoring_config.risco_baixo
risco_medio == scoring_config.risco_medio
risco_alto == scoring_config.risco_alto

meio_ano == 2                   \* the literal 0.5 of lines 213, 224
um_ano == 4                     \* the literal 1.0 of line 215
dois_anos == 8                  \* the literal 2 of line 294
ausencias_moderadas == 3        \* the literal 3 of lines 280, 294

---------------------------------------------------------------------------
(* The bounds of the model *)

MaxTempoCasa == 10              \* largest tempo_casa drawn, in grid steps
MaxTreinamentos == 4            \* largest num_treinamentos drawn
MaxAusencias == 15              \* largest num_ausencias drawn
MaxFatores == 2                 \* longest hand-made factor list drawn
MaxLinhas == 2                  \* most rows of a DataFrame drawn
MaxPdfs == 2                    \* most LinkedIn PDFs uploaded at once

---------------------------------------------------------------------------
(* class Employee *)

\* Employee(...) as the dataclass constructor builds it: the derived fields
\* take their defaults (linkedin_data None, score_risco 0, lists None)
Employee(nome, departamento, cargo, tempo_casa, participou_pdi, num_treinamentos, num_ausencias) ==
    [ nome |-> nome, departamento |-> departamento, cargo |-> cargo,
      tempo_casa |-> tempo_casa, participou_pdi |-> participou_pdi,
      num_treinamentos |-> num_treinamentos, num_ausencias |-> num_ausencias,
      linkedin_data |-> None, score_risco |-> 0,
      fatores_risco |-> None, acoes_recomendadas |-> None ]

\* the dict processar_pdf_linkedin returns on success, as far as the engine
\* reads it
LinkedinData(ativo, mudancas, certificacoes) ==
    [ ativo_recentemente |-> ativo, mudancas_frequentes |-> mudancas,
      certificacoes_recentes |-> certificacoes ]

LinkedinBundles ==
    { LinkedinData(a, m, c) : a \in BOOLEAN, m \in BOOLEAN, c \in BOOLEAN }

\* `if employee.linkedin_data:` is true of a non-empty dict
TemLinkedin(e) == ~IsNone(e.linkedin_data)

---------------------------------------------------------------------------
(* calcular_score_risco: the five contributions, in hundredths of a point *)

\* the third band taken above tempo_casa_estavel instead of below it
ScoreTempoCasaInvertido(tempo_casa) ==
    IF tempo_casa < tempo_casa_critico THEN 60 * peso_tempo_casa
    ELSE IF tempo_casa < tempo_casa_risco
         THEN Max(40 - ((tempo_casa * 20) \div Ano), 10) * peso_tempo_casa
    ELSE IF tempo_casa > tempo_casa_estavel THEN 15 * peso_tempo_casa
    ELSE 0

\* the bands closed at their upper bounds: `<=` for the `<` of lines 201-207
ScoreTempoCasaInclusivo(tempo_casa) ==
    IF tempo_casa <= tempo_casa_critico THEN 60 * peso_tempo_casa
    ELSE IF tempo_casa <= tempo_casa_risco
         THEN Max(40 - ((tempo_casa * 20) \div Ano), 10) * peso_tempo_casa
    ELSE IF tempo_casa <= tempo_casa_estavel THEN 15 * peso_tempo_casa
    ELSE 0

\* 1. tempo de casa
ScoreTempoCasa(tempo_casa) ==
    IF tempo_casa < tempo_casa_critico THEN 60 * peso_tempo_casa
    ELSE IF tempo_casa < tempo_casa_risco
         THEN Max(40 - ((tempo_casa * 20) \div Ano), 10) * peso_tempo_casa
    ELSE IF tempo_casa < tempo_casa_estavel THEN 15 * peso_tempo_casa
    ELSE 0

\* the values of lines 213-218 in the opposite order of tenure
ScorePdiInvertido(e) ==
    IF ~e.participou_pdi
    THEN IF e.tempo_casa < meio_ano THEN 60 * peso_pdi
         ELSE IF e.tempo_casa < um_ano THEN 30 * peso_pdi
         ELSE 10 * peso_pdi
    ELSE 0

\* 2. PDI
ScorePdi(e) ==
    IF ~e.participou_pdi
    THEN IF e.tempo_casa < meio_ano THEN 10 * peso_pdi
         ELSE IF e.tempo_casa < um_ano THEN 30 * peso_pdi
         ELSE 60 * peso_pdi
    ELSE 0

\* 3. treinamentos
TreinamentosEsperados(tempo_casa) ==
    Max(1, IntTrunc(tempo_casa * 2, Ano))

\* the deficit without the max(0, ...) of line 222
DeficitSemPiso(e) ==
    TreinamentosEsperados(e.tempo_casa) - e.num_treinamentos

DeficitTreinamentos(e) ==
    Max(0, TreinamentosEsperados(e.tempo_casa) - e.num_treinamentos)

ScoreTreinamentos(e) ==
    IF e.tempo_casa < meio_ano
    THEN IF e.num_treinamentos = 0 THEN 20 * peso_treinamentos ELSE 0
    ELSE Min(DeficitTreinamentos(e) * 20, 50) * peso_treinamentos

\* the excess of line 233 with its operands swapped
ScoreAusenciasTrocado(e) ==
    IF e.num_ausencias > ausencias_critico
    THEN Min((ausencias_critico - e.num_ausencias) * 10, 60) * peso_ausencias
    ELSE 0

\* the excess of line 234 without its cap of 60
ScoreAusenciasSemTeto(e) ==
    IF e.num_ausencias > ausencias_critico
    THEN (e.num_ausencias - ausencias_critico) * 10 * peso_ausencias
    ELSE 0

\* 4. ausencias
ScoreAusencias(e) ==
    IF e.num_ausencias > ausencias_critico
    THEN Min((e.num_ausencias - ausencias_critico) * 10, 60) * peso_ausencias
    ELSE 0

\* certificacoes_recentes counted as a third signal
ScoreLinkedinComCertificacoes(e) ==
    IF TemLinkedin(e)
    THEN (IF Val(e.linkedin_data).ativo_recentemente
          THEN 50 * peso_linkedin ELSE 0)
       + (IF Val(e.linkedin_data).mudancas_frequentes
          THEN 30 * peso_linkedin ELSE 0)
       + (IF Val(e.linkedin_data).certificacoes_recentes
          THEN 20 * peso_linkedin ELSE 0)
    ELSE 0

\* 5. LinkedIn
ScoreLinkedin(e) ==
    IF TemLinkedin(e)
    THEN (IF Val(e.linkedin_data).ativo_recentemente
          THEN 50 * peso_linkedin ELSE 0)
       + (IF Val(e.linkedin_data).mudancas_frequentes
          THEN 30 * peso_linkedin ELSE 0)
    ELSE 0

\* the running sum `score` at line 243, before min(score, 100)
ScoreSoma(e) ==
    ScoreTempoCasa(e.tempo_casa) + ScorePdi(e) + ScoreTreinamentos(e)
        + ScoreAusencias(e) + ScoreLinkedin(e)

calcular_score_risco(e) == Min(ScoreSoma(e), 100 * Centesimos)

---------------------------------------------------------------------------
(* identificar_fatores_risco *)

\* one entry of `fatores`: the words of the text and the numbers formatted
\* into it
Fator(texto, args) == [ texto |-> texto, args |-> args ]

FatorMuitoNovo ==
    Fator(<<"Colaborador", "muito", "novo", "3", "meses", "periodo",
            "critico", "de", "adaptacao">>, <<>>)
FatorPeriodoRisco ==
    Fator(<<"Colaborador", "em", "periodo", "de", "risco", "1", "ano">>, <<>>)
FatorEstabilizacao ==
    Fator(<<"Colaborador", "em", "processo", "de", "estabilizacao", "1", "2",
            "anos">>, <<>>)
FatorPdiNovo ==
    Fator(<<"PDI", "nao", "realizado", "normal", "para", "colaborador",
            "muito", "novo">>, <<>>)
FatorPdiRecomendado ==
    Fator(<<"PDI", "nao", "realizado", "recomendado", "apos", "6",
            "meses">>, <<>>)
FatorPdiCritico ==
    Fator(<<"PDI", "nao", "realizado", "critico", "para", "colaborador",
            "experiente">>, <<>>)
FatorNenhumTreinamento ==
    Fator(<<"Nenhum", "treinamento", "realizado", "considerar",
            "treinamento", "de", "integracao">>, <<>>)
FatorDeficit(realizados, esperados) ==
    Fator(<<"Deficit", "de", "treinamentos", "{}", "realizados", "de", "{}",
            "esperados">>, <<realizados, esperados>>)
FatorAusenciasExcessivas(faltas) ==
    Fator(<<"Ausencias", "excessivas", "{}", "faltas", "acima", "do",
            "limite", "de", "{}">>, <<faltas, ausencias_critico>>)
FatorAusenciasModeradas(faltas) ==
    Fator(<<"Ausencias", "moderadas", "{}", "faltas", "monitorar">>,
          <<faltas>>)
FatorLinkedinAtivo ==
    Fator(<<"Perfil", "LinkedIn", "com", "atividade", "recente", "possivel",
            "busca", "ativa">>, <<>>)
FatorLinkedinMudancas ==
    Fator(<<"Historico", "de", "mudancas", "frequentes", "de", "empresa",
            "no", "LinkedIn">>, <<>>)
FatorLinkedinCertificacoes ==
    Fator(<<"Certificacoes", "cursos", "recentes", "no", "LinkedIn",
            "desenvolvimento", "proprio">>, <<>>)
FatorPerfilEstavel ==
    Fator(<<"Perfil", "estavel", "baixo", "risco", "de", "saida">>, <<>>)

FatoresTempoCasa(e) ==
    IF e.tempo_casa < tempo_casa_critico THEN <<FatorMuitoNovo>>
    ELSE IF e.tempo_casa < tempo_casa_risco THEN <<FatorPeriodoRisco>>
    ELSE IF e.tempo_casa < tempo_casa_estavel THEN <<FatorEstabilizacao>>
    ELSE <<>>

\* lines 258-265 left out: a missing PDI is never reported
SemFatoresPdi(e) == <<>>

FatoresPdi(e) ==
    IF ~e.participou_pdi
    THEN IF e.tempo_casa < meio_ano THEN <<FatorPdiNovo>>
         ELSE IF e.tempo_casa < um_ano THEN <<FatorPdiRecomendado>>
         ELSE <<FatorPdiCritico>>
    ELSE <<>>

\* lines 270-272 left out: a new employee without training is not reported
FatoresTreinamentosSoDeficit(e) ==
    IF e.num_treinamentos < TreinamentosEsperados(e.tempo_casa)
          /\ e.tempo_casa >= meio_ano
    THEN <<FatorDeficit(e.num_treinamentos,
                        TreinamentosEsperados(e.tempo_casa))>>
    ELSE <<>>

FatoresTreinamentos(e) ==
    IF e.num_treinamentos < TreinamentosEsperados(e.tempo_casa)
    THEN IF e.tempo_casa < meio_ano
         THEN IF e.num_treinamentos = 0 THEN <<FatorNenhumTreinamento>>
              ELSE <<>>
         ELSE <<FatorDeficit(e.num_treinamentos,
                             TreinamentosEsperados(e.tempo_casa))>>
    ELSE <<>>

FatoresAusencias(e) ==
    IF e.num_ausencias > ausencias_critico
    THEN <<FatorAusenciasExcessivas(e.num_ausencias)>>
    ELSE IF e.num_ausencias > ausencias_moderadas
         THEN <<FatorAusenciasModeradas(e.num_ausencias)>>
    ELSE <<>>

FatoresLinkedin(e) ==
    IF TemLinkedin(e)
    THEN (IF Val(e.linkedin_data).ativo_recentemente
          THEN <<FatorLinkedinAtivo>> ELSE <<>>)
      \o (IF Val(e.linkedin_data).mudancas_frequentes
          THEN <<FatorLinkedinMudancas>> ELSE <<>>)
      \o (IF Val(e.linkedin_data).certificacoes_recentes
          THEN <<FatorLinkedinCertificacoes>> ELSE <<>>)
    ELSE <<>>

\* `fatores` at line 292, before the "perfil estavel" entry
FatoresDeRisco(e) ==
    FatoresTempoCasa(e) \o FatoresPdi(e) \o FatoresTreinamentos(e)
        \o FatoresAusencias(e) \o FatoresLinkedin(e)

\* line 297 without lines 292-295
SemPerfilEstavel(fatores, e) == fatores

\* lines 292-297
FatoresOuEstavel(fatores, e) ==
    IF fatores = <<>>
    THEN IF e.tempo_casa >= dois_anos /\ e.participou_pdi
            /\ e.num_ausencias <= ausencias_moderadas
         THEN <<FatorPerfilEstavel>>
         ELSE <<>>
    ELSE fatores

identificar_fatores_risco(e) == FatoresOuEstavel(FatoresDeRisco(e), e)

---------------------------------------------------------------------------
(* gerar_recomendacoes *)

\* what a call gives back: a value, or the exception it raised
Retorna(v) == [ exc |-> "", val |-> v ]
Levanta(x) == [ exc |-> x, val |-> <<>> ]

\* str.lower() of one word, for the words the model's texts are made of
Minusculas ==
    [ w \in { "PDI", "Sim", "SIM", "Nao", "True", "False", "Nome",
              "Departamento", "CARGO", "Tempo", "Casa", "Participou", "Num",
              "Treinamentos", "Ana", "Lima", "Bruno", "Sa", "Caio", "CV",
              "LinkedIn", "Ausencias", "Colaborador", "Nenhum", "Deficit",
              "Perfil", "Historico", "Certificacoes" } |->
        CASE w = "PDI" -> "pdi"
          [] w = "Sim" -> "sim"
          [] w = "SIM" -> "sim"
          [] w = "Nao" -> "nao"
          [] w = "True" -> "true"
          [] w = "False" -> "false"
          [] w = "Nome" -> "nome"
          [] w = "Departamento" -> "departamento"
          [] w = "CARGO" -> "cargo"
          [] w = "Tempo" -> "tempo"
          [] w = "Casa" -> "casa"
          [] w = "Participou" -> "participou"
          [] w = "Num" -> "num"
          [] w = "Treinamentos" -> "treinamentos"
          [] w = "Ana" -> "ana"
          [] w = "Lima" -> "lima"
          [] w = "Bruno" -> "bruno"
          [] w = "Sa" -> "sa"
          [] w = "Caio" -> "caio"
          [] w = "CV" -> "cv"
          [] w = "LinkedIn" -> "linkedin"
          [] w = "Ausencias" -> "ausencias"
          [] w = "Colaborador" -> "colaborador"
          [] w = "Nenhum" -> "nenhum"
          [] w = "Deficit" -> "deficit"
          [] w = "Perfil" -> "perfil"
          [] w = "Historico" -> "historico"
          [] w = "Certificacoes" -> "certificacoes" ]

LowerPalavra(w) == IF w \in DOMAIN Minusculas THEN Minusculas[w] ELSE w

Lower(texto) == [ i \in 1..Len(texto) |-> LowerPalavra(texto[i]) ]

\* `chave in texto` for texts held as word sequences: the words of chave
\* occur in texto, adjacent and in order
Contem(chave, texto) ==
    \E i \in 0..(Len(texto) - Len(chave)) :
        \A j \in 1..Len(chave) : texto[i + j] = chave[j]

\* any(chave in fator.lower() for fator in fatores_risco)
AlgumFator(chave, fatores) ==
    \E k \in 1..Len(fatores) : Contem(chave, Lower(fatores[k].texto))

RecomendacoesPadrao ==
    <<"Manter acompanhamento regular", "Reconhecer bom desempenho">>

RecomendacoesPorFator(fatores) ==
    (IF AlgumFator(<<"tempo", "de", "casa">>, fatores)
     THEN <<"Implementar programa de mentoria para novos colaboradores",
            "Agendar check-ins regulares com gestor direto">>
     ELSE <<>>)
    \o (IF AlgumFator(<<"pdi">>, fatores)
        THEN <<"Agendar reuniao de PDI e definir metas de carreira",
               "Criar plano de desenvolvimento individual">>
        ELSE <<>>)
    \o (IF AlgumFator(<<"treinamentos">>, fatores)
        THEN <<"Oferecer trilha de desenvolvimento personalizada",
               "Inscrever em cursos relevantes para o cargo">>
        ELSE <<>>)
    \o (IF AlgumFator(<<"ausencias">>, fatores)
        THEN <<"Realizar conversa individual para entender causas",
               "Avaliar necessidade de suporte adicional">>
        ELSE <<>>)
    \o (IF AlgumFator(<<"linkedin">>, fatores)
        THEN <<"Conduzir pesquisa de satisfacao confidencial",
               "Agendar 1:1 para discussao de carreira">>
        ELSE <<>>)

\* the list as it is, without the fallback
SemPadrao(recomendacoes) == recomendacoes

\* lines 323-327

OuPadrao(recomendacoes) ==
    IF recomendacoes = <<>> THEN RecomendacoesPadrao ELSE recomendacoes

Recomendacoes(fatores) == OuPadrao(RecomendacoesPorFator(fatores))

\* fatores_risco is None or <<list>>: iterating None raises TypeError at the
\* first any(... for fator in fatores_risco), line 303
gerar_recomendacoes(fatores_risco, e) ==
    IF IsNone(fatores_risco)
    THEN Levanta("TypeError")
    ELSE Retorna(Recomendacoes(Val(fatores_risco)))

---------------------------------------------------------------------------
(* get_risk_level *)

\* the first comparison strict
get_risk_level_estrito(score) ==
    IF score < risco_baixo * Centesimos THEN "Baixo"
    ELSE IF score <= risco_medio * Centesimos THEN "Medio"
    ELSE "Alto"

get_risk_level(score) ==
    IF score <= risco_baixo * Centesimos THEN "Baixo"
    ELSE IF score <= risco_medio * Centesimos THEN "Medio"
    ELSE "Alto"

---------------------------------------------------------------------------
(* The derived fields, recomputed as lines 376-378 and 834-836 do *)

ComScore(e) == [e EXCEPT !.score_risco = calcular_score_risco(e)]

ComFatores(e) ==
    [e EXCEPT !.fatores_risco = Some(identificar_fatores_risco(e))]

ComAcoes(e) ==
    [e EXCEPT !.acoes_recomendadas =
                 Some(gerar_recomendacoes(e.fatores_risco, e).val)]

Recalcular(e) == ComAcoes(ComFatores(ComScore(e)))

---------------------------------------------------------------------------
(* init_session_state *)

SessaoInicial == [ employees |-> <<>>, data_loaded |-> FALSE ]

\* nothing shown yet
PaginaInicial ==
    [ op |-> "", st |-> <<>>, pdf_employee_mapping |-> <<>>,
      processed_count |-> 0, error_count |-> 0, log |-> <<>>,
      manual |-> <<>> ]

---------------------------------------------------------------------------
(* SpecScore: the engine applied to one Employee *)

\* the valid records of the data model, as the constructor leaves them
NovosEmployees ==
    { Employee("Ana", "TI", "Dev", t, p, n, a) :
        t \in 0..MaxTempoCasa, p \in BOOLEAN,
        n \in 0..MaxTreinamentos, a \in 0..MaxAusencias }

InitScore ==
    /\ scoring_config = SCORING_CONFIG
    /\ session_state = SessaoInicial
    /\ pagina = PaginaInicial
    /\ employee \in NovosEmployees
    /\ df_in = None
    /\ resultado = None
    /\ fatores_in = None
    /\ retorno = None
    /\ score_in = 0
    /\ nivel = ""

Pontuado(e) == ~IsNone(e.fatores_risco)

\* lines 376-378: the new record is scored
Pontuar ==
    /\ ~Pontuado(employee)
    /\ employee' = Recalcular(employee)
    /\ UNCHANGED <<scoring_config, session_state, pagina, df_in, resultado, fatores_in, retorno, score_in, nivel>>

\* lines 833-836: a bundle is attached to a scored record and the derived
\* fields are recomputed (here the first attachment; Spec also replaces a
\* bundle by another)
AnexarLinkedin ==
    /\ Pontuado(employee)
    /\ ~TemLinkedin(employee)
    /\ \E b \in LinkedinBundles :
          employee' = Recalcular([employee EXCEPT !.linkedin_data = Some(b)])
    /\ UNCHANGED <<scoring_config, session_state, pagina, df_in, resultado, fatores_in, retorno, score_in, nivel>>

NextScore == Pontuar \/ AnexarLinkedin

SpecScore == InitScore /\ [][NextScore]_vars

---------------------------------------------------------------------------
(* SpecConfig: the engine and the classifier under the shipped            *)
(* configuration and under other values of the dict                        *)

\* the configuration of the spec's worked example: weights 0.25, 0.30, 0.25
\* and 0.20, tenure critical 0.5 year, training minimum 2, absence critical
\* 5, tiers up to 20 and up to 45; what the example leaves open is as shipped
ConfigExemplo ==
    [ SCORING_CONFIG EXCEPT
        !.peso_tempo_casa = 25, !.peso_pdi = 30, !.peso_treinamentos = 25,
        !.peso_ausencias = 20, !.tempo_casa_critico = 2,
        !.treinamentos_minimo = 2, !.ausencias_critico = 5,
        !.risco_baixo = 20, !.risco_medio = 45 ]

\* a configuration whose stability threshold (1.5 years) is below the
\* literal 2 of line 294
ConfigEstavelCedo == [ SCORING_CONFIG EXCEPT !.tempo_casa_estavel = 6 ]

Configuracoes == { SCORING_CONFIG, ConfigExemplo, ConfigEstavelCedo }

\* the records of the spec's worked examples: 7.0 years, no PDI, no
\* training, 50 absences; and 2.5 years, PDI, 4 trainings, 2 absences
EmployeeCritico == Employee("Ana", "TI", "Dev", 7 * Ano, FALSE, 0, 50)
EmployeeEstavel == Employee("Ana", "TI", "Dev", 10, TRUE, 4, 2)

InitConfig ==
    /\ scoring_config \in Configuracoes
    /\ session_state = SessaoInicial
    /\ pagina = PaginaInicial
    /\ employee \in NovosEmployees \cup {EmployeeCritico, EmployeeEstavel}
    /\ df_in = None
    /\ resultado = None
    /\ fatores_in = None
    /\ retorno = None
    /\ score_in = 0
    /\ nivel = ""

\* get_risk_level(emp.score_risco), as the charts and the exports call it
ClassificarEmployee ==
    /\ Pontuado(employee)
    /\ nivel = ""
    /\ score_in' = employee.score_risco
    /\ nivel' = get_risk_level(employee.score_risco)
    /\ UNCHANGED <<scoring_config, session_state, pagina, employee, df_in, resultado, fatores_in, retorno>>

NextConfig == Pontuar \/ AnexarLinkedin \/ ClassificarEmployee

SpecConfig == InitConfig /\ [][NextConfig]_vars

---------------------------------------------------------------------------
(* SpecNivel: get_risk_level applied to a score of [0, 100] *)

InitNivel ==
    /\ scoring_config = SCORING_CONFIG
    /\ session_state = SessaoInicial
    /\ pagina = PaginaInicial
    /\ score_in \in 0..(risco_alto * Centesimos)
    /\ nivel = ""
    /\ employee = Employee("", "", "", 0, FALSE, 0, 0)
    /\ df_in = None
    /\ resultado = None
    /\ fatores_in = None
    /\ retorno = None

Classificar ==
    /\ nivel = ""
    /\ nivel' = get_risk_level(score_in)
    /\ UNCHANGED <<scoring_config, session_state, pagina, employee, df_in, resultado, fatores_in, retorno, score_in>>

\* the literals of the dashboard counters (lines 995-996), the analysis
\* page's risk filter (lines 1077-1081), the export summary (lines
\* 1284-1286) and the sidebar statistic (line 1345)
risco_painel_alto == 60
risco_painel_medio == 30

\* the list a score is counted or filtered into by those comparisons
FiltroDeRisco(score) ==
    IF score > risco_painel_alto * Centesimos THEN "Alto"
    ELSE IF risco_painel_medio * Centesimos < score
            /\ score <= risco_painel_alto * Centesimos
         THEN "Medio"
    ELSE "Baixo"

\* the pages count or filter the score that was classified
FiltrarPorRisco ==
    /\ nivel # ""
    /\ retorno = None
    /\ retorno' = Some(FiltroDeRisco(score_in))
    /\ UNCHANGED <<scoring_config, session_state, pagina, employee, df_in, resultado, fatores_in, score_in, nivel>>

NextNivel == Classificar \/ FiltrarPorRisco

SpecNivel == InitNivel /\ [][NextNivel]_vars

---------------------------------------------------------------------------
(* The factor lists gerar_recomendacoes is handed *)

\* one factor of each text identificar_fatores_risco can produce
AmostraFatores ==
    { FatorMuitoNovo, FatorPeriodoRisco, FatorEstabilizacao, FatorPdiNovo,
      FatorPdiRecomendado, FatorPdiCritico, FatorNenhumTreinamento,
      FatorDeficit(1, 2), FatorAusenciasExcessivas(9),
      FatorAusenciasModeradas(4), FatorLinkedinAtivo, FatorLinkedinMudancas,
      FatorLinkedinCertificacoes, FatorPerfilEstavel }

ListasCurtas ==
    UNION { [1..k -> AmostraFatores] : k \in 0..MaxFatores }

\* the lists line 378 and line 836 pass: identificar_fatores_risco of a
\* record, with or without a bundle
ComLinkedin ==
    { [e EXCEPT !.linkedin_data = d] :
        e \in NovosEmployees,
        d \in {None} \cup { Some(b) : b \in LinkedinBundles } }

ListasIdentificadas == { identificar_fatores_risco(e) : e \in ComLinkedin }

\* the argument: None (the default of Employee.fatores_risco) or a list
ArgumentosFatores ==
    {None} \cup { Some(f) : f \in ListasCurtas \cup ListasIdentificadas }

---------------------------------------------------------------------------
(* Spreadsheet cells and the Python conversions applied to them *)

\* a cell of the DataFrame: an int, a float (v quarters of a unit), NaN (an
\* empty cell), a bool (v is 0 or 1) or a str (s, a sequence of words, with
\* " " for a blank)
CelInt(n) == [ t |-> "int", v |-> n, s |-> <<>> ]
CelFloat(q) == [ t |-> "float", v |-> q, s |-> <<>> ]
CelNaN == [ t |-> "nan", v |-> 0, s |-> <<>> ]
CelBool(b) == [ t |-> "bool", v |-> IF b THEN 1 ELSE 0, s |-> <<>> ]
CelStr(s) == [ t |-> "str", v |-> 0, s |-> s ]

\* the decimal literals the model's str cells can spell: <<"3">> is "3" and
\* <<"1", ".", "5">> is "1.5"; anything else ("abc", "1,5", "") is no number
Digitos == 0..9
EhInteiro(s) == Len(s) = 1 /\ \E n \in Digitos : ToString(n) = s[1]
ValorInteiro(s) == CHOOSE n \in Digitos : ToString(n) = s[1]
EhDecimal(s) ==
    /\ Len(s) = 3
    /\ s[2] = "."
    /\ EhInteiro(<<s[1]>>)
    /\ s[3] \in {"0", "25", "5", "75"}
ValorDecimal(s) ==
    ValorInteiro(<<s[1]>>) * Ano
        + (CASE s[3] = "0" -> 0 [] s[3] = "25" -> 1
             [] s[3] = "5" -> 2 [] s[3] = "75" -> 3)

\* str.strip() of a text
RECURSIVE LStrip(_)
LStrip(s) == IF s # <<>> /\ Head(s) = " " THEN LStrip(Tail(s)) ELSE s
RECURSIVE RStrip(_)
RStrip(s) ==
    IF s # <<>> /\ s[Len(s)] = " " THEN RStrip(SubSeq(s, 1, Len(s) - 1))
    ELSE s
Strip(s) == RStrip(LStrip(s))

\* str(x)
ToStr(c) ==
    CASE c.t = "str" -> c.s
      [] c.t = "nan" -> <<"nan">>
      [] c.t = "int" -> <<ToString(c.v)>>
      [] c.t = "bool" -> IF c.v = 1 THEN <<"True">> ELSE <<"False">>
      [] c.t = "float" ->
            <<ToString(IntTrunc(c.v, Ano)), ".",
              ToString((c.v - IntTrunc(c.v, Ano) * Ano) * 25)>>

\* float(x): a number of quarters, NaN, or ValueError
ToFloat(c) ==
    CASE c.t = "float" -> [ exc |-> "", nan |-> FALSE, val |-> c.v ]
      [] c.t = "int" -> [ exc |-> "", nan |-> FALSE, val |-> c.v * Ano ]
      [] c.t = "bool" -> [ exc |-> "", nan |-> FALSE, val |-> c.v * Ano ]
      [] c.t = "nan" -> [ exc |-> "", nan |-> TRUE, val |-> 0 ]
      [] c.t = "str" ->
            IF EhInteiro(Strip(c.s))
            THEN [ exc |-> "", nan |-> FALSE,
                   val |-> ValorInteiro(Strip(c.s)) * Ano ]
            ELSE IF EhDecimal(Strip(c.s))
            THEN [ exc |-> "", nan |-> FALSE, val |-> ValorDecimal(Strip(c.s)) ]
            ELSE [ exc |-> "ValueError", nan |-> FALSE, val |-> 0 ]

\* int(x): a float is truncated, NaN and a str that is no integer literal
\* raise ValueError
ToInt(c) ==
    CASE c.t = "int" -> [ exc |-> "", val |-> c.v ]
      [] c.t = "bool" -> [ exc |-> "", val |-> c.v ]
      [] c.t = "float" -> [ exc |-> "", val |-> IntTrunc(c.v, Ano) ]
      [] c.t = "nan" -> [ exc |-> "ValueError", val |-> 0 ]
      [] c.t = "str" ->
            IF EhInteiro(Strip(c.s))
            THEN [ exc |-> "", val |-> ValorInteiro(Strip(c.s)) ]
            ELSE [ exc |-> "ValueError", val |-> 0 ]

\* str(x).lower() in ['sim', 'yes', 'true', '1']
ParticipouPdi(c) ==
    Lower(ToStr(c)) \in { <<"sim">>, <<"yes">>, <<"true">>, <<"1">> }

---------------------------------------------------------------------------
(* processar_planilha *)

\* a message the page shows: st.error, st.warning or st.success
StError(colunas) ==
    [ tipo |-> "error", colunas |-> colunas, colaborador |-> CelNaN,
      exc |-> "" ]
StSuccess ==
    [ tipo |-> "success", colunas |-> <<>>, colaborador |-> CelNaN,
      exc |-> "" ]
StWarning(colaborador, exc) ==
    [ tipo |-> "warning", colunas |-> <<>>, colaborador |-> colaborador,
      exc |-> exc ]

\* str.replace(' ', '_') of a text
Replace(s) == [ i \in 1..Len(s) |-> IF s[i] = " " THEN "_" ELSE s[i] ]

\* one name of df.columns.str.lower().str.strip().str.replace(' ', '_')
NormalizarColuna(c) == Replace(Strip(Lower(c)))

NormalizarColunas(columns) ==
    [ j \in 1..Len(columns) |-> NormalizarColuna(columns[j]) ]

required_columns ==
    << <<"nome">>, <<"departamento">>, <<"cargo">>, <<"tempo", "_", "casa">>,
       <<"participou", "_", "pdi">>, <<"num", "_", "treinamentos">>,
       <<"num", "_", "ausencias">> >>

Elementos(seq) == { seq[i] : i \in 1..Len(seq) }

\* only the first missing column is kept
SoAPrimeiraAusente(columns) ==
    LET Ausente(col) == col \notin Elementos(columns)
    IN  SubSeq(SelectSeq(required_columns, Ausente), 1, 1)

\* [col for col in required_columns if col not in df.columns]
MissingColumns(columns) ==
    LET Ausente(col) == col \notin Elementos(columns)
    IN  SelectSeq(required_columns, Ausente)

\* row[col], for a column present in df.columns
Celula(columns, row, col) ==
    row[CHOOSE j \in 1..Len(columns) : columns[j] = col]

\* Employee(...) of lines 366-374 from the converted cells, then lines
\* 376-380; or the warning of line 383 for the first conversion that
\* raised.  float() of an empty cell is NaN, and then int(tempo_casa * 2)
\* at line 221 raises ValueError inside the try
LinhaConvertida(nome, departamento, cargo, tempo, pdi, trein, aus) ==
    IF tempo.exc # ""
    THEN [ emp |-> <<>>, msg |-> <<StWarning(nome, tempo.exc)>> ]
    ELSE IF trein.exc # ""
    THEN [ emp |-> <<>>, msg |-> <<StWarning(nome, trein.exc)>> ]
    ELSE IF aus.exc # ""
    THEN [ emp |-> <<>>, msg |-> <<StWarning(nome, aus.exc)>> ]
    ELSE IF tempo.nan
    THEN [ emp |-> <<>>, msg |-> <<StWarning(nome, "ValueError")>> ]
    ELSE [ emp |-> <<Recalcular(Employee(
                        Strip(ToStr(nome)), Strip(ToStr(departamento)),
                        Strip(ToStr(cargo)), tempo.val, ParticipouPdi(pdi),
                        trein.val, aus.val))>>,
           msg |-> <<>> ]

\* the body of the loop, lines 365-383, for one row: the Employee appended
\* or the warning shown
ProcessarLinha(columns, row) ==
    LinhaConvertida(
        Celula(columns, row, <<"nome">>),
        Celula(columns, row, <<"departamento">>),
        Celula(columns, row, <<"cargo">>),
        ToFloat(Celula(columns, row, <<"tempo", "_", "casa">>)),
        Celula(columns, row, <<"participou", "_", "pdi">>),
        ToInt(Celula(columns, row, <<"num", "_", "treinamentos">>)),
        ToInt(Celula(columns, row, <<"num", "_", "ausencias">>)))

\* once a row has failed, the rows after it are dropped
AcumulaAteErro(acc, r) ==
    IF acc.st # <<>> THEN acc
    ELSE [ employees |-> acc.employees \o r.emp, st |-> acc.st \o r.msg ]

\* employees and messages after one more row
Acumula(acc, r) ==
    [ employees |-> acc.employees \o r.emp, st |-> acc.st \o r.msg ]

\* for _, row in df.iterrows(): ...
RECURSIVE ProcessarLinhas(_, _, _)
ProcessarLinhas(acc, columns, rows) ==
    IF rows = <<>> THEN acc
    ELSE ProcessarLinhas(Acumula(acc, ProcessarLinha(columns, Head(rows))),
                         columns, Tail(rows))

ComColunas(r, columns) ==
    [ employees |-> r.employees, st |-> r.st, columns |-> columns ]

\* lines 357-385, df.columns being already renamed
ProcessarComColunas(columns, rows, missing_columns) ==
    IF missing_columns # <<>>
    THEN [ employees |-> <<>>, st |-> <<StError(missing_columns)>>,
           columns |-> columns ]
    ELSE ComColunas(ProcessarLinhas([ employees |-> <<>>, st |-> <<>> ],
                                    columns, rows),
                    columns)

ColunasRenomeadas(columns, rows) ==
    ProcessarComColunas(columns, rows, MissingColumns(columns))

\* the list returned, the messages shown, and df.columns as line 355
\* leaves them
processar_planilha(df) ==
    ColunasRenomeadas(NormalizarColunas(df.columns), df.rows)

---------------------------------------------------------------------------
(* SpecPlanilha: processar_planilha applied to a DataFrame *)

Linha(nome, tempo_casa, participou_pdi, num_treinamentos, num_ausencias) ==
    [ nome |-> nome, departamento |-> CelStr(<<"TI">>),
      cargo |-> CelStr(<<" ", "Dev">>), tempo_casa |-> tempo_casa,
      participou_pdi |-> participou_pdi,
      num_treinamentos |-> num_treinamentos,
      num_ausencias |-> num_ausencias, email |-> CelNaN ]

\* rows that coerce
LinhaAna ==
    Linha(CelStr(<<"Ana", " ", "Lima">>), CelFloat(6), CelStr(<<"Sim">>),
          CelInt(3), CelInt(2))
LinhaBruno ==
    Linha(CelStr(<<" ", "Bruno", " ", "Sa", " ">>), CelFloat(1),
          CelStr(<<"Nao">>), CelInt(0), CelInt(12))
LinhaTipos ==
    Linha(CelStr(<<"Ana", " ", "Lima">>), CelInt(3), CelBool(TRUE),
          CelFloat(10), CelStr(<<"4">>))
\* rows that do not
LinhaTempoTexto ==
    Linha(CelStr(<<"Caio">>), CelStr(<<"abc">>), CelStr(<<"Sim">>),
          CelInt(1), CelInt(0))
LinhaVazia == Linha(CelNaN, CelNaN, CelNaN, CelNaN, CelNaN)
LinhaTreinTexto ==
    Linha(CelStr(<<"Bruno">>), CelStr(<<"2", ".", "5">>), CelInt(1),
          CelStr(<<"x">>), CelInt(9))
LinhaTempoNaN ==
    Linha(CelStr(<<"Caio">>), CelNaN, CelStr(<<"SIM">>), CelInt(2), CelInt(5))
LinhaAusNaN ==
    Linha(CelStr(<<"Ana">>), CelFloat(10), CelFloat(4), CelInt(5), CelNaN)

\* rows whose cells convert to values outside the Employee's ranges: a
\* tenure of -1.0 with counts of -1 and -2, and a name of one blank with 2.5
\* trainings
LinhaNegativos ==
    Linha(CelStr(<<"Caio">>), CelFloat(-4), CelStr(<<"Sim">>), CelInt(-1),
          CelInt(-2))
LinhaSemNome ==
    Linha(CelStr(<<" ">>), CelInt(3), CelStr(<<"Sim">>), CelFloat(10),
          CelInt(0))

AmostraLinhas ==
    { LinhaAna, LinhaBruno, LinhaTipos, LinhaTempoTexto, LinhaVazia,
      LinhaTreinTexto, LinhaTempoNaN, LinhaAusNaN, LinhaNegativos,
      LinhaSemNome }

\* column headers: the name as written in the file and the field under it
Col(nome, campo) == [ nome |-> nome, campo |-> campo ]

ColunasExatas ==
    << Col(<<"nome">>, "nome"), Col(<<"departamento">>, "departamento"),
       Col(<<"cargo">>, "cargo"), Col(<<"tempo", "_", "casa">>, "tempo_casa"),
       Col(<<"participou", "_", "pdi">>, "participou_pdi"),
       Col(<<"num", "_", "treinamentos">>, "num_treinamentos"),
       Col(<<"num", "_", "ausencias">>, "num_ausencias") >>
ColunasSoltas ==
    << Col(<<"num", " ", "ausencias", " ">>, "num_ausencias"),
       Col(<<"Nome">>, "nome"), Col(<<" ", "Departamento">>, "departamento"),
       Col(<<"email">>, "email"), Col(<<"CARGO", " ">>, "cargo"),
       Col(<<"Tempo", " ", "Casa">>, "tempo_casa"),
       Col(<<"Participou", " ", "PDI">>, "participou_pdi"),
       Col(<<"Num", " ", "Treinamentos">>, "num_treinamentos") >>
ColunasSemTempo ==
    << Col(<<"nome">>, "nome"), Col(<<"departamento">>, "departamento"),
       Col(<<"cargo">>, "cargo"),
       Col(<<"participou", "_", "pdi">>, "participou_pdi"),
       Col(<<"num", "_", "treinamentos">>, "num_treinamentos"),
       Col(<<"num", "_", "ausencias">>, "num_ausencias") >>
ColunasSemDuas ==
    << Col(<<"Nome">>, "nome"), Col(<<"departamento">>, "departamento"),
       Col(<<"cargo">>, "cargo"), Col(<<"tempo", "_", "casa">>, "tempo_casa"),
       Col(<<"email">>, "email"),
       Col(<<"num", "_", "treinamentos">>, "num_treinamentos") >>
ColunasHifen ==
    << Col(<<"nome">>, "nome"), Col(<<"departamento">>, "departamento"),
       Col(<<"cargo">>, "cargo"), Col(<<"tempo", "-", "casa">>, "tempo_casa"),
       Col(<<"participou", "_", "pdi">>, "participou_pdi"),
       Col(<<"num", "_", "treinamentos">>, "num_treinamentos"),
       Col(<<"num", "_", "ausencias">>, "num_ausencias") >>

AmostraColunas ==
    { ColunasExatas, ColunasSoltas, ColunasSemTempo, ColunasSemDuas,
      ColunasHifen }

\* the DataFrame with the headers cols and one row per entry of linhas
DataFrame(cols, linhas) ==
    [ columns |-> [ j \in 1..Len(cols) |-> cols[j].nome ],
      rows |-> [ i \in 1..Len(linhas) |->
                   [ j \in 1..Len(cols) |-> linhas[i][cols[j].campo] ] ] ]

SequenciasAte(S, n) == UNION { [1..k -> S] : k \in 0..n }

DataFrames ==
    { DataFrame(cols, linhas) :
        cols \in AmostraColunas,
        linhas \in SequenciasAte(AmostraLinhas, MaxLinhas) }

InitPlanilha ==
    /\ scoring_config = SCORING_CONFIG
    /\ session_state = SessaoInicial
    /\ pagina = PaginaInicial
    /\ df_in \in { Some(d) : d \in DataFrames }
    /\ resultado = None
    /\ employee = Employee("", "", "", 0, FALSE, 0, 0)
    /\ fatores_in = None
    /\ retorno = None
    /\ score_in = 0
    /\ nivel = ""

\* the rows consumed by the loop of line 364 as well
DfDepoisSemLinhas(df) ==
    [ columns |-> NormalizarColunas(df.columns), rows |-> <<>> ]

\* the caller's DataFrame after the call: line 355 renames its columns in
\* place, the loop of line 364 only reads the rows
DfDepois(df) ==
    [ df EXCEPT !.columns = processar_planilha(df).columns ]

\* employees = processar_planilha(df)
ChamarProcessarPlanilha ==
    /\ ~IsNone(df_in)
    /\ resultado = None
    /\ resultado' = Some(processar_planilha(Val(df_in)))
    /\ df_in' = Some(DfDepois(Val(df_in)))
    /\ UNCHANGED <<scoring_config, session_state, pagina, employee, fatores_in, retorno, score_in, nivel>>

\* processar_planilha called again on the DataFrame the first call left
ChamarProcessarPlanilhaOutraVez ==
    /\ ~IsNone(df_in)
    /\ ~IsNone(resultado)
    /\ retorno = None
    /\ retorno' = Some(processar_planilha(Val(df_in)))
    /\ df_in' = Some(DfDepois(Val(df_in)))
    /\ UNCHANGED <<scoring_config, session_state, pagina, employee, resultado, fatores_in, score_in, nivel>>

NextPlanilha == ChamarProcessarPlanilha \/ ChamarProcessarPlanilhaOutraVez

SpecPlanilha == InitPlanilha /\ [][NextPlanilha]_vars

---------------------------------------------------------------------------
(* SpecRecomendacoes: gerar_recomendacoes called with a factor list, and   *)
(* called by processar_planilha for each record (line 378)                 *)

InitRecomendacoes ==
    /\ scoring_config = SCORING_CONFIG
    /\ session_state = SessaoInicial
    /\ pagina = PaginaInicial
    /\ \/ fatores_in \in ArgumentosFatores /\ df_in = None
       \/ fatores_in = None /\ df_in \in { Some(d) : d \in DataFrames }
    /\ retorno = None
    /\ resultado = None
    /\ employee = Employee("", "", "", 0, FALSE, 0, 0)
    /\ score_in = 0
    /\ nivel = ""

ChamarGerarRecomendacoes ==
    /\ IsNone(df_in)
    /\ retorno = None
    /\ retorno' = Some(gerar_recomendacoes(fatores_in, employee))
    /\ UNCHANGED <<scoring_config, session_state, pagina, employee, df_in, resultado, fatores_in, score_in, nivel>>

NextRecomendacoes == ChamarGerarRecomendacoes \/ ChamarProcessarPlanilha

SpecRecomendacoes == InitRecomendacoes /\ [][NextRecomendacoes]_vars

---------------------------------------------------------------------------
(* processar_pdf_linkedin *)

\* an uploaded PDF: its file name and what PyMuPDF finds in it.  tamanho is
\* len(pdf_content), abre whether fitz.open succeeds, chars is
\* len(text.strip()), anos whether one of the three latest years occurs in
\* the text, work_count and cert_count the keyword counts
Pdf(name, tamanho, abre, page_count, chars, anos, work_count, cert_count) ==
    [ name |-> name, tamanho |-> tamanho, abre |-> abre,
      page_count |-> page_count, chars |-> chars, anos |-> anos,
      work_count |-> work_count, cert_count |-> cert_count ]

\* the dict returned: erro is "" when the key is absent, and an absent
\* texto_extraido reads FALSE, as .get("texto_extraido", False) does
DictErro(erro) ==
    [ erro |-> erro, texto_extraido |-> FALSE, ativo_recentemente |-> FALSE,
      mudancas_frequentes |-> FALSE, certificacoes_recentes |-> FALSE ]

processar_pdf_linkedin(pdf_file) ==
    IF pdf_file.tamanho = 0 THEN DictErro("Arquivo PDF vazio")
    ELSE IF ~pdf_file.abre THEN DictErro("Erro ao processar PDF")
    ELSE IF pdf_file.page_count = 0 THEN DictErro("PDF sem paginas")
    ELSE IF pdf_file.chars < 10
         THEN DictErro("Nao foi possivel extrair texto do PDF")
    ELSE [ erro |-> "", texto_extraido |-> TRUE,
           ativo_recentemente |-> pdf_file.anos,
           mudancas_frequentes |-> pdf_file.work_count > 8,
           certificacoes_recentes |-> pdf_file.cert_count > 2 ]

\* what the engine reads of the dict stored in employee.linkedin_data
Bundle(linkedin_data) ==
    LinkedinData(linkedin_data.ativo_recentemente,
                 linkedin_data.mudancas_frequentes,
                 linkedin_data.certificacoes_recentes)

---------------------------------------------------------------------------
(* render_upload_page: the association of PDFs with employees *)

\* len(part) > 2, for the words of the model's names
PalavrasCurtas == { "sa", "cv", "de" }

\* str.split(): the words between the blanks
Split(s) == LET Palavra(w) == w # " " IN SelectSeq(s, Palavra)

\* pdf_file.name.lower().replace('.pdf', '').replace('_', ' ')
\*     .replace('-', ' ')
SemExtensao(name) ==
    LET NaoExtensao(w) == w # ".pdf" IN SelectSeq(name, NaoExtensao)

SemTracos(name) ==
    [ i \in 1..Len(name) |-> IF name[i] \in {"_", "-"} THEN " " ELSE name[i] ]

FileNameClean(name) == SemTracos(SemExtensao(Lower(name)))

\* `part in file_name_clean`, the file name's words being whole words
Matches(nome_parts, file_name_clean) ==
    Cardinality({ i \in 1..Len(nome_parts) :
                    /\ nome_parts[i] \notin PalavrasCurtas
                    /\ nome_parts[i] \in file_name_clean })

\* line 740
Bastam(matches, nome_parts) ==
    matches >= 2 \/ (matches >= 1 /\ Len(nome_parts) <= 2)

AssociaPartes(nome_parts, file_name_clean) ==
    Bastam(Matches(nome_parts, file_name_clean), nome_parts)

Associa(nome, name) ==
    AssociaPartes(Split(Lower(nome)), Elementos(FileNameClean(name)))

\* lines 731-746: each PDF goes to the first employee whose name matches;
\* the result lists, in file order, the PDF's and the employee's positions

\* the employees whose name matches the file's
Candidatos(employees, name) ==
    { i \in 1..Len(employees) : Associa(employees[i].nome, name) }

\* the first of them, if any (the break of line 743)
Primeiro(k, cands) ==
    IF cands = {} THEN <<>>
    ELSE << [ pdf |-> k, emp |-> CHOOSE i \in cands : \A j \in cands : i <= j ] >>

RECURSIVE PdfEmployeeMapping(_, _, _)
PdfEmployeeMapping(linkedin_files, employees, k) ==
    IF k > Len(linkedin_files) THEN <<>>
    ELSE Primeiro(k, Candidatos(employees, linkedin_files[k].name))
            \o PdfEmployeeMapping(linkedin_files, employees, k + 1)

---------------------------------------------------------------------------
(* render_upload_page: "Processar Todos os PDFs Associados" *)

LogPdf(pdf, emp, resultado_pdf) ==
    [ pdf |-> pdf, emp |-> emp, resultado |-> resultado_pdf ]

\* the bundle is stored and only the score recomputed
AnexarSoScore(e, linkedin_data) ==
    ComScore([e EXCEPT !.linkedin_data = Some(Bundle(linkedin_data))])

\* lines 832-836: the bundle is stored and the derived fields recomputed
Anexar(e, linkedin_data) ==
    Recalcular([e EXCEPT !.linkedin_data = Some(Bundle(linkedin_data))])

\* lines 817-829: the two checks that skip a failed extraction
ExtracaoFalhou(linkedin_data) ==
    linkedin_data.erro # "" \/ ~linkedin_data.texto_extraido

\* the failure counted but the `continue` of lines 823 and 829 left out
TratarResultadoSemContinue(est, name, idx, linkedin_data) ==
    IF ExtracaoFalhou(linkedin_data)
    THEN [ est EXCEPT !.employees[idx] = Anexar(@, linkedin_data),
                      !.error_count = @ + 1,
                      !.log = Append(@, LogPdf(name, idx, "erro")) ]
    ELSE [ est EXCEPT !.employees[idx] = Anexar(@, linkedin_data),
                      !.processed_count = @ + 1,
                      !.log = Append(@, LogPdf(name, idx, "ok")) ]

\* lines 817-838 for the dict linkedin_data, est being the employees and
\* the counters so far
TratarResultado(est, name, idx, linkedin_data) ==
    IF ExtracaoFalhou(linkedin_data)
    THEN [ est EXCEPT !.error_count = @ + 1,
                      !.log = Append(@, LogPdf(name, idx, "erro")) ]
    ELSE [ est EXCEPT !.employees[idx] = Anexar(@, linkedin_data),
                      !.processed_count = @ + 1,
                      !.log = Append(@, LogPdf(name, idx, "ok")) ]

\* lines 812-838: one pass of the loop
ProcessarUmPdf(est, pdf_file, idx) ==
    TratarResultado(est, pdf_file.name, idx, processar_pdf_linkedin(pdf_file))

\* for pdf_name, employee in pdf_employee_mapping.items(): ...
RECURSIVE ProcessarPdfs(_, _, _)
ProcessarPdfs(est, linkedin_files, mapping) ==
    IF mapping = <<>> THEN est
    ELSE ProcessarPdfs(
             ProcessarUmPdf(est, linkedin_files[Head(mapping).pdf],
                            Head(mapping).emp),
             linkedin_files, Tail(mapping))

---------------------------------------------------------------------------
(* Spec: the upload page, one action per click *)

\* the spreadsheets the user uploads: every required column present (the
\* button of line 696 is drawn only then), rows that coerce and rows that
\* do not
LinhasSessao == { LinhaAna, LinhaBruno, LinhaTempoTexto }

DataFramesSessao ==
    { DataFrame(cols, linhas) :
        cols \in {ColunasSoltas, ColunasSemTempo},
        linhas \in SequenciasAte(LinhasSessao, MaxLinhas) }

\* the PDFs the user uploads
PdfAna ==
    Pdf(<<"Ana", "_", "Lima", ".pdf">>, 2048, TRUE, 2, 900, TRUE, 9, 0)
PdfAnaVazio ==
    Pdf(<<"lima", "-", "ana", "-", "CV", ".pdf">>, 0, FALSE, 0, 0, FALSE, 0, 0)
PdfBruno ==
    Pdf(<<"bruno", ".pdf">>, 1024, TRUE, 1, 300, FALSE, 3, 3)
PdfBrunoCurto ==
    Pdf(<<"Bruno", "_", "Sa", ".pdf">>, 512, TRUE, 1, 4, FALSE, 0, 0)

AmostraPdfs == { PdfAna, PdfAnaVazio, PdfBruno, PdfBrunoCurto }

\* file lists of distinct files
ListasDePdfs ==
    { fs \in SequenciasAte(AmostraPdfs, MaxPdfs) :
        \A i, j \in 1..Len(fs) : i # j => fs[i] # fs[j] }

Init ==
    /\ scoring_config = SCORING_CONFIG
    /\ session_state = SessaoInicial
    /\ pagina = PaginaInicial
    /\ employee = Employee("", "", "", 0, FALSE, 0, 0)
    /\ df_in = None
    /\ resultado = None
    /\ fatores_in = None
    /\ retorno = None
    /\ score_in = 0
    /\ nivel = ""

\* the list stored without the test of line 700
GuardarSempre(r) ==
    /\ session_state' = [ employees |-> r.employees,
                          data_loaded |-> r.employees # <<>> ]
    /\ pagina' = [ PaginaInicial EXCEPT
                       !.op = "planilha",
                       !.st = Append(r.st, IF r.employees # <<>>
                                           THEN StSuccess
                                           ELSE StError(<<>>)) ]

\* lines 700-706: the list processar_planilha returned is stored, or not
GuardarEmployees(r) ==
    IF r.employees # <<>>
    THEN /\ session_state' = [ employees |-> r.employees,
                               data_loaded |-> TRUE ]
         /\ pagina' = [ PaginaInicial EXCEPT
                            !.op = "planilha",
                            !.st = Append(r.st, StSuccess) ]
    ELSE /\ session_state' = session_state
         /\ pagina' = [ PaginaInicial EXCEPT
                            !.op = "planilha",
                            !.st = Append(r.st, StError(<<>>)) ]

\* lines 696-706: "Processar Dados" is clicked with the spreadsheet d in the
\* uploader
ProcessarDados(d) == GuardarEmployees(processar_planilha(d))

\* line 684: the headers normalised into a list of the page's own
ColunasAusentes(d) == MissingColumns(NormalizarColunas(d.columns))

\* the button of line 695 is drawn only when no required column is missing
ClicarProcessarDados ==
    /\ \E d \in DataFramesSessao :
          /\ ColunasAusentes(d) = <<>>
          /\ ProcessarDados(d)
    /\ UNCHANGED <<scoring_config, employee, df_in, resultado, fatores_in, retorno, score_in,
                   nivel>>

\* lines 688-689: a spreadsheet lacking a required column is in the
\* uploader; the page names the missing columns and draws no button
MostrarColunasAusentes ==
    /\ \E d \in DataFramesSessao :
          /\ ColunasAusentes(d) # <<>>
          /\ pagina' = [ PaginaInicial EXCEPT
                             !.op = "planilha",
                             !.st = <<StError(ColunasAusentes(d))>> ]
    /\ UNCHANGED <<scoring_config, session_state, employee, df_in, resultado, fatores_in, retorno,
                   score_in, nivel>>

\* lines 888-898: the employees are the session's own objects, and the
\* counters are shown
MostrarResumo(fim, associados) ==
    /\ session_state' = [ session_state EXCEPT !.employees = fim.employees ]
    /\ pagina' = [ op |-> "pdfs", st |-> <<>>,
                   pdf_employee_mapping |-> associados,
                   processed_count |-> fim.processed_count,
                   error_count |-> fim.error_count, log |-> fim.log,
                   manual |-> <<>> ]

\* pdf_employee_mapping as the page lists it: file name and employee
Associados(linkedin_files, mapping) ==
    [ k \in 1..Len(mapping) |->
        [ pdf |-> linkedin_files[mapping[k].pdf].name, emp |-> mapping[k].emp ] ]

\* lines 795-898, the button being drawn only for a non-empty mapping
ProcessarAssociados(linkedin_files, mapping) ==
    /\ mapping # <<>>
    /\ MostrarResumo(
           ProcessarPdfs([ employees |-> session_state.employees,
                           processed_count |-> 0, error_count |-> 0,
                           log |-> <<>> ],
                         linkedin_files, mapping),
           Associados(linkedin_files, mapping))

\* lines 723-898: "Processar Todos os PDFs Associados" is clicked with the
\* files linkedin_files in the uploader
ProcessarTodosOsPdfs(linkedin_files) ==
    /\ linkedin_files # <<>>
    /\ session_state.employees # <<>>
    /\ ProcessarAssociados(
           linkedin_files,
           PdfEmployeeMapping(linkedin_files, session_state.employees, 1))

ClicarProcessarPdfs ==
    /\ \E linkedin_files \in ListasDePdfs :
          ProcessarTodosOsPdfs(linkedin_files)
    /\ UNCHANGED <<scoring_config, employee, df_in, resultado, fatores_in, retorno, score_in,
                   nivel>>

\* unmatched_pdfs: the files the automatic association left out
NaoAssociados(linkedin_files, mapping) ==
    { k \in 1..Len(linkedin_files) :
        \A n \in 1..Len(mapping) : mapping[n].pdf # k }

\* lines 785-787: the first employee bearing the selected name
Selecionado(employees, nome) ==
    CHOOSE i \in 1..Len(employees) :
        /\ employees[i].nome = nome
        /\ \A j \in 1..Len(employees) : employees[j].nome = nome => i <= j

\* lines 766-790: the confirm button of the unmatched file k is pressed with
\* the employee i selected.  Line 788 writes the pair into the local
\* pdf_employee_mapping and line 790 reruns the script, which builds
\* pdf_employee_mapping anew from the file names (lines 727-746); the page
\* then shows that mapping
ConfirmarAssociacao(linkedin_files, employees, mapping, k, i) ==
    pagina' = [ PaginaInicial EXCEPT
                   !.op = "associar",
                   !.pdf_employee_mapping = Associados(linkedin_files, mapping),
                   !.manual = << [ pdf |-> linkedin_files[k].name,
                                   emp |-> Selecionado(employees,
                                                       employees[i].nome) ] >> ]

AssociarManualmente ==
    /\ session_state.employees # <<>>
    /\ \E linkedin_files \in ListasDePdfs :
          \E k \in NaoAssociados(linkedin_files,
                                 PdfEmployeeMapping(linkedin_files,
                                                    session_state.employees, 1)) :
             \E i \in 1..Len(session_state.employees) :
                ConfirmarAssociacao(
                    linkedin_files, session_state.employees,
                    PdfEmployeeMapping(linkedin_files,
                                       session_state.employees, 1),
                    k, i)
    /\ UNCHANGED <<scoring_config, session_state, employee, df_in, resultado, fatores_in, retorno,
                   score_in, nivel>>

\* a / b of Python: the quotient (here cut to a whole number of the unit of
\* a), or ZeroDivisionError
Dividir(a, b) ==
    IF b = 0 THEN Levanta("ZeroDivisionError") ELSE Retorna(a \div b)

\* a metric card, or the traceback the page shows instead
StMetric(r) == [ tipo |-> "metric", exc |-> r.exc, valor |-> r.val ]

\* "Nenhum dado carregado. Faca upload dos dados primeiro."
StNenhumDado == StWarning(CelNaN, "")

\* sum(e.score_risco for e in employees)
RECURSIVE SomaScores(_)
SomaScores(employees) ==
    IF employees = <<>> THEN 0
    ELSE Head(employees).score_risco + SomaScores(Tail(employees))

\* len([e for e in employees if e.score_risco > 60])
HighRisk(employees) ==
    Len(SelectSeq(employees,
                  LAMBDA e : e.score_risco > risco_painel_alto * Centesimos))

\* the page op showing the messages st
Mostrar(op, st) == pagina' = [ PaginaInicial EXCEPT !.op = op, !.st = st ]

\* the dashboard without the early return of lines 984-986
VerDashboardSemRetorno ==
    /\ Mostrar("dashboard",
               <<StMetric(Dividir(SomaScores(session_state.employees),
                                  Len(session_state.employees)))>>)
    /\ UNCHANGED <<scoring_config, session_state, employee, df_in, resultado, fatores_in, retorno,
                   score_in, nivel>>

\* render_dashboard_page, lines 982-1009: the average score
VerDashboard ==
    /\ IF session_state.employees = <<>>
       THEN Mostrar("dashboard", <<StNenhumDado>>)
       ELSE Mostrar("dashboard",
                    <<StMetric(Dividir(SomaScores(session_state.employees),
                                       Len(session_state.employees)))>>)
    /\ UNCHANGED <<scoring_config, session_state, employee, df_in, resultado, fatores_in, retorno,
                   score_in, nivel>>

\* render_export_page, lines 1193-1197 and 1283-1295: the share of high risk,
\* in hundredths of a percent
VerExportacao ==
    /\ IF session_state.employees = <<>>
       THEN Mostrar("export", <<StNenhumDado>>)
       ELSE Mostrar("export",
                    <<StMetric(Dividir(HighRisk(session_state.employees)
                                           * 100 * Centesimos,
                                       Len(session_state.employees)))>>)
    /\ UNCHANGED <<scoring_config, session_state, employee, df_in, resultado, fatores_in, retorno,
                   score_in, nivel>>

\* main, lines 1342-1348: the sidebar statistic, drawn only with employees
VerBarraLateral ==
    /\ IF session_state.employees = <<>>
       THEN Mostrar("sidebar", <<>>)
       ELSE Mostrar("sidebar",
                    <<StMetric(Dividir(HighRisk(session_state.employees)
                                           * 100 * Centesimos,
                                       Len(session_state.employees)))>>)
    /\ UNCHANGED <<scoring_config, session_state, employee, df_in, resultado, fatores_in, retorno,
                   score_in, nivel>>

Next ==
    \/ ClicarProcessarDados
    \/ MostrarColunasAusentes
    \/ AssociarManualmente
    \/ ClicarProcessarPdfs
    \/ VerDashboard
    \/ VerExportacao
    \/ VerBarraLateral

Spec == Init /\ [][Next]_vars

---------------------------------------------------------------------------
(* Properties of calcular_score_risco, under SpecScore *)

\* the record with another absence count, or another tenure, the other
\* fields held fixed
ComAusencias(e, a) == [e EXCEPT !.num_ausencias = a]
ComTempoCasa(e, t) == [e EXCEPT !.tempo_casa = t]

\* C1: for every valid record (tenure, training count and absence count
\* >= 0, any participation flag, with or without a bundle of any flag
\* combination) the score calcular_score_risco stores is between 0 and 100
ScoreEntreZeroECem ==
    Pontuado(employee) =>
        /\ 0 <= employee.score_risco
        /\ employee.score_risco <= 100 * Centesimos

\* the highest score SCORING_CONFIG allows: a new hire without PDI or
\* training, six absences over the limit, an active profile with frequent
\* changes
ScoreMaximoPontuado ==
    /\ Pontuado(employee)
    /\ TemLinkedin(employee)
    /\ employee.tempo_casa < tempo_casa_critico
    /\ employee.score_risco = 5150

\* C9: tenure, participation, training count and bundle held fixed, the
\* score does not decrease when the absence count grows: every smaller
\* absence count gives a score no higher than the record's
ScoreNaoDecresceComAusencias ==
    Pontuado(employee) =>
        \A a \in 0..employee.num_ausencias :
            calcular_score_risco(ComAusencias(employee, a))
                <= employee.score_risco

\* one absence past ausencias_critico, and the score is strictly higher
\* than at the limit
UmaAusenciaAcimaDoLimite ==
    /\ Pontuado(employee)
    /\ employee.num_ausencias = ausencias_critico + 1
    /\ calcular_score_risco(ComAusencias(employee, ausencias_critico))
           < employee.score_risco

TreinamentoIgual(e, t2) ==
    \/ e.num_treinamentos >= TreinamentosEsperados(t2)
    \/ TreinamentosEsperados(t2) = TreinamentosEsperados(e.tempo_casa)
    \/ (TreinamentosEsperados(e.tempo_casa) - e.num_treinamentos) * 20 >= 50

---------------------------------------------------------------------------
(* Properties of get_risk_level, under SpecNivel *)

\* C2: get_risk_level gives every score of [0, 100] exactly one of three
\* tiers: Baixo up to and including risco_baixo, Medio above risco_baixo up
\* to and including risco_medio, Alto above risco_medio; a score on a
\* boundary gets the lower tier
TresFaixasContiguas ==
    nivel # "" =>
        /\ nivel \in {"Baixo", "Medio", "Alto"}
        /\ nivel = "Baixo" <=> score_in <= risco_baixo * Centesimos
        /\ nivel = "Medio" <=> /\ risco_baixo * Centesimos < score_in
                               /\ score_in <= risco_medio * Centesimos
        /\ nivel = "Alto" <=> risco_medio * Centesimos < score_in

\* a score exactly on the first boundary, classified
FronteiraBaixoClassificada ==
    nivel = "Baixo" /\ score_in = risco_baixo * Centesimos

---------------------------------------------------------------------------
(* Properties of gerar_recomendacoes, under SpecRecomendacoes *)

\* C7: gerar_recomendacoes returns a non-empty list for every factor list,
\* the empty list included, and every record processar_planilha returns has
\* a non-empty acoes_recomendadas
RecomendacoesNuncaVazias ==
    /\ (~IsNone(retorno) /\ ~IsNone(fatores_in)) =>
           /\ Val(retorno).exc = ""
           /\ Val(retorno).val # <<>>
    /\ ~IsNone(resultado) =>
           \A i \in 1..Len(Val(resultado).employees) :
               /\ ~IsNone(Val(resultado).employees[i].acoes_recomendadas)
               /\ Val(Val(resultado).employees[i].acoes_recomendadas) # <<>>

\* the call with the empty list has returned the two fallback texts
ListaVaziaRecebePadrao ==
    /\ fatores_in = Some(<<>>)
    /\ ~IsNone(retorno)
    /\ Val(retorno) = Retorna(RecomendacoesPadrao)

\* C8: gerar_recomendacoes does not fail when the factors argument is the
\* empty list or None: in both cases it returns the fallback
\* recommendations
VazioOuNoneRecebePadrao ==
    (~IsNone(retorno) /\ fatores_in \in {None, Some(<<>>)}) =>
        Val(retorno) = Retorna(RecomendacoesPadrao)

---------------------------------------------------------------------------
(* Properties of processar_planilha, under SpecPlanilha *)

\* every required column is among the (renamed) columns
TodasPresentes(columns) ==
    \A col \in Elementos(required_columns) : col \in Elementos(columns)

\* the DataFrame of the i-th row alone
SoALinha(df, i) == [ columns |-> df.columns, rows |-> <<df.rows[i]>> ]

\* the records and the messages of the rows from i on, each processed alone
RECURSIVE UmaPorUma(_, _)
UmaPorUma(df, i) ==
    IF i > Len(df.rows) THEN [ employees |-> <<>>, st |-> <<>> ]
    ELSE [ employees |-> processar_planilha(SoALinha(df, i)).employees
                            \o UmaPorUma(df, i + 1).employees,
           st |-> processar_planilha(SoALinha(df, i)).st
                     \o UmaPorUma(df, i + 1).st ]

\* the cell is a text that spells no number
NaoNumerico(cel) ==
    /\ cel.t = "str"
    /\ ~EhInteiro(Strip(cel.s))
    /\ ~EhDecimal(Strip(cel.s))

\* row i is the only one with a tenure that is no number, and every other
\* row is a good one
SoALinhaComTempoRuim(df, i) ==
    /\ NaoNumerico(Celula(df.columns, df.rows[i], <<"tempo", "_", "casa">>))
    /\ \A j \in 1..Len(df.rows) :
          j # i => Len(processar_planilha(SoALinha(df, j)).employees) = 1

\* with every required column present: each row alone gives one record or
\* one warning; the batch gives, in order, what its rows give alone; one
\* row with a bad tenure among good rows costs one record and is named by
\* the one warning
LinhasIsoladas(df, r) ==
    /\ \A i \in 1..Len(df.rows) :
          Len(processar_planilha(SoALinha(df, i)).employees)
              + Len(processar_planilha(SoALinha(df, i)).st) = 1
    /\ r.employees = UmaPorUma(df, 1).employees
    /\ r.st = UmaPorUma(df, 1).st
    /\ Len(r.employees) + Len(r.st) = Len(df.rows)
    /\ \A i \in 1..Len(df.rows) :
          SoALinhaComTempoRuim(df, i) =>
              /\ Len(r.employees) = Len(df.rows) - 1
              /\ Len(r.st) = 1
              /\ r.st[1].tipo = "warning"
              /\ r.st[1].colaborador
                     = Celula(df.columns, df.rows[i], <<"nome">>)

\* C4: for N rows under a column set with all required fields, every row
\* gives exactly one scored record or exactly one reported error, so records
\* + errors = N; one row with a non-numeric tenure gives N-1 records and one
\* error naming that row, and changes the result of no other row
CadaLinhaUmRegistroOuUmErro ==
    (~IsNone(resultado) /\ TodasPresentes(Val(df_in).columns)) =>
        LinhasIsoladas(Val(df_in), Val(resultado))

\* two rows, the first with a tenure that is no number: the second is still
\* scored, and the one warning names the first
LinhaRuimAntesDeLinhaBoa ==
    /\ ~IsNone(resultado)
    /\ TodasPresentes(Val(df_in).columns)
    /\ Len(Val(df_in).rows) = 2
    /\ SoALinhaComTempoRuim(Val(df_in), 1)
    /\ Len(Val(resultado).employees) = 1
    /\ Len(Val(resultado).st) = 1
    /\ Val(resultado).st[1].colaborador = CelStr(<<"Caio">>)

\* the required columns that are not among the (renamed) columns
Ausentes(columns) ==
    { col \in Elementos(required_columns) : col \notin Elementos(columns) }

\* C5: when a required column is missing after the renaming of line 355,
\* processar_planilha reports exactly one error, which names every missing
\* column, processes no row and returns no record
ColunaAusenteUmErroNenhumRegistro ==
    (~IsNone(resultado) /\ ~TodasPresentes(Val(df_in).columns)) =>
        /\ Val(resultado).employees = <<>>
        /\ Len(Val(resultado).st) = 1
        /\ Val(resultado).st[1].tipo = "error"
        /\ Elementos(Val(resultado).st[1].colunas)
               = Ausentes(Val(df_in).columns)
        /\ Len(Val(resultado).st[1].colunas)
               = Cardinality(Ausentes(Val(df_in).columns))

\* a sheet with rows and two required columns missing, both named
DuasColunasAusentes ==
    /\ ~IsNone(resultado)
    /\ Val(df_in).rows # <<>>
    /\ Cardinality(Ausentes(Val(df_in).columns)) = 2
    /\ Val(resultado).st
           = <<StError(<< <<"participou", "_", "pdi">>,
                          <<"num", "_", "ausencias">> >>)>>

---------------------------------------------------------------------------
(* Properties of the session, under Spec *)

\* the derived fields of e are those the engine gives for e's attributes
\* and e's linkedin_data
DerivadosEmDia(e) ==
    /\ e.score_risco = calcular_score_risco(e)
    /\ e.fatores_risco = Some(identificar_fatores_risco(e))
    /\ gerar_recomendacoes(e.fatores_risco, e).exc = ""
    /\ e.acoes_recomendadas
           = Some(gerar_recomendacoes(e.fatores_risco, e).val)

\* C3: after any sequence of spreadsheet processings and PDF processings
\* (successful or failed), every record of the session has score_risco,
\* fatores_risco and acoes_recomendadas equal to what the engine computes
\* from its current attributes and its current linkedin_data
DerivadosSempreEmDia ==
    \A i \in 1..Len(session_state.employees) :
        DerivadosEmDia(session_state.employees[i])

\* a PDF run with a failure and a success, after which a record holds a
\* bundle with the activity flag
BundleAnexadoAposFalha ==
    /\ pagina.op = "pdfs"
    /\ pagina.error_count >= 1
    /\ pagina.processed_count >= 1
    /\ \E i \in 1..Len(session_state.employees) :
          /\ TemLinkedin(session_state.employees[i])
          /\ Val(session_state.employees[i].linkedin_data).ativo_recentemente

\* the positions of the log with the given result
Entradas(log, resultado_pdf) ==
    { k \in 1..Len(log) : log[k].resultado = resultado_pdf }

\* what a PDF run (from antes to depois, showing pag) must satisfy: one log
\* entry per associated PDF, in order; the counters count the entries; a
\* record none of whose PDFs succeeded is as before
FalhasSemEfeito(antes, depois, pag) ==
    /\ Len(pag.log) = Len(pag.pdf_employee_mapping)
    /\ \A k \in 1..Len(pag.log) :
          /\ pag.log[k].pdf = pag.pdf_employee_mapping[k].pdf
          /\ pag.log[k].emp = pag.pdf_employee_mapping[k].emp
    /\ pag.error_count = Cardinality(Entradas(pag.log, "erro"))
    /\ pag.processed_count = Cardinality(Entradas(pag.log, "ok"))
    /\ Len(depois) = Len(antes)
    /\ \A i \in 1..Len(antes) :
          (\A k \in Entradas(pag.log, "ok") : pag.log[k].emp # i)
              => depois[i] = antes[i]

\* C6: when the extraction for an employee fails, the employee's
\* linkedin_data, score_risco, fatores_risco and acoes_recomendadas are left
\* unchanged, the error counter is incremented, and the loop goes on with
\* the remaining associated PDFs
ExtracaoFalhaNadaMuda ==
    [][ pagina'.op = "pdfs" =>
            FalhasSemEfeito(session_state.employees,
                            session_state'.employees, pagina') ]_vars

\* a run in which a failed PDF was followed by a successful one, and a
\* record whose only PDF failed still has no bundle
FalhaSeguidaDeSucesso ==
    /\ pagina.op = "pdfs"
    /\ Len(pagina.log) = 2
    /\ pagina.log[1].resultado = "erro"
    /\ pagina.log[2].resultado = "ok"
    /\ pagina.error_count = 1
    /\ pagina.log[1].emp # pagina.log[2].emp
    /\ ~TemLinkedin(session_state.employees[pagina.log[1].emp])

---------------------------------------------------------------------------
(* The spec's worked examples, under SpecConfig *)

\* C11: with weights 0.25, 0.30, 0.25, 0.20 and tiers up to 20 and up to
\* 45, the record (7.0 years, no PDI, 0 trainings, 50 absences) gets a
\* score clamped to 100 and the tier Alto
ExemploCriticoCemEAlto ==
    ( /\ scoring_config = ConfigExemplo
      /\ employee.tempo_casa = 7 * Ano
      /\ ~employee.participou_pdi
      /\ employee.num_treinamentos = 0
      /\ employee.num_ausencias = 50
      /\ nivel # "" ) =>
        /\ employee.score_risco = 100 * Centesimos
        /\ nivel = "Alto"

\* the record of the second example, scored and classified
ExemploEstavelClassificado ==
    /\ employee.tempo_casa = 10
    /\ employee.participou_pdi
    /\ employee.num_treinamentos = 4
    /\ employee.num_ausencias = 2
    /\ ~TemLinkedin(employee)
    /\ nivel # ""

\* C12: for the record (2.5 years, PDI, 4 trainings, 2 absences,
\* no bundle) the tier is Baixo, identificar_fatores_risco reports no risk
\* condition, and gerar_recomendacoes returns the fallback
ExemploEstavelSemFatores ==
    ExemploEstavelClassificado =>
        /\ nivel = "Baixo"
        /\ Val(employee.fatores_risco) \in {<<>>, <<FatorPerfilEstavel>>}
        /\ Val(employee.acoes_recomendadas) = RecomendacoesPadrao

\* no flag of the bundle is set, or there is no bundle
SemSinaisDePerfil(e) ==
    TemLinkedin(e) =>
        /\ ~Val(e.linkedin_data).ativo_recentemente
        /\ ~Val(e.linkedin_data).mudancas_frequentes
        /\ ~Val(e.linkedin_data).certificacoes_recentes

\* no factor crosses its reporting threshold: tenure at or above the
\* stability threshold, PDI done, no training deficit, absences not above
\* the reporting threshold, no profile flag
NenhumFatorReportavel(e) ==
    /\ e.tempo_casa >= tempo_casa_estavel
    /\ e.participou_pdi
    /\ e.num_treinamentos >= Max(1, (e.tempo_casa * 2) \div Ano)
    /\ e.num_ausencias <= ausencias_moderadas
    /\ e.num_ausencias <= ausencias_critico
    /\ SemSinaisDePerfil(e)

\* C13: identificar_fatores_risco returns the empty list for every record
\* in which no factor crosses its reporting threshold
SemFatorListaVazia ==
    (Pontuado(employee) /\ NenhumFatorReportavel(employee)) =>
        Val(employee.fatores_risco) = <<>>

\* C13 amended: for every such record identificar_fatores_risco returns the
\* one-entry list "Perfil estavel - baixo risco de saida" when the tenure
\* is at least 2 years, and the empty list when it is below 2 years
SemFatorPerfilEstavel ==
    (Pontuado(employee) /\ NenhumFatorReportavel(employee)) =>
        Val(employee.fatores_risco)
            = IF employee.tempo_casa >= 2 * Ano THEN <<FatorPerfilEstavel>>
              ELSE <<>>

\* a record without any reportable factor, scored under the shipped
\* configuration: the list holds the stable-profile entry
PerfilEstavelReportado ==
    /\ scoring_config = SCORING_CONFIG
    /\ Pontuado(employee)
    /\ NenhumFatorReportavel(employee)
    /\ employee.tempo_casa = 2 * Ano
    /\ employee.num_ausencias = ausencias_moderadas
    /\ Val(employee.fatores_risco) = <<FatorPerfilEstavel>>

\* C14: whenever identificar_fatores_risco returns an empty list for a
\* record, its tenure, PDI, training, absence and profile contributions to
\* calcular_score_risco are all zero (and so is its score)
ListaVaziaSemContribuicao ==
    (Pontuado(employee) /\ Val(employee.fatores_risco) = <<>>) =>
        /\ ScoreTempoCasa(employee.tempo_casa) = 0
        /\ ScorePdi(employee) = 0
        /\ ScoreTreinamentos(employee) = 0
        /\ ScoreAusencias(employee) = 0
        /\ ScoreLinkedin(employee) = 0
        /\ employee.score_risco = 0

\* the empty list is returned: stability threshold configured at 1.5 years,
\* tenure 1.5 years, a bundle without any flag attached
ListaVaziaDevolvida ==
    /\ scoring_config = ConfigEstavelCedo
    /\ Pontuado(employee)
    /\ employee.tempo_casa = tempo_casa_estavel
    /\ TemLinkedin(employee)
    /\ Val(employee.fatores_risco) = <<>>

\* some entry of acoes is one of the recommendations rs
TemAcao(acoes, rs) == \E i \in 1..Len(acoes) : acoes[i] \in rs

AcoesTempoCasa ==
    { "Implementar programa de mentoria para novos colaboradores",
      "Agendar check-ins regulares com gestor direto" }

AcoesPdi ==
    { "Agendar reuniao de PDI e definir metas de carreira",
      "Criar plano de desenvolvimento individual" }

AcoesTreinamentos ==
    { "Oferecer trilha de desenvolvimento personalizada",
      "Inscrever em cursos relevantes para o cargo" }

AcoesAusencias ==
    { "Realizar conversa individual para entender causas",
      "Avaliar necessidade de suporte adicional" }

AcoesLinkedin ==
    { "Conduzir pesquisa de satisfacao confidencial",
      "Agendar 1:1 para discussao de carreira" }

\* each category with a factor in the list has a recommendation in acoes
CategoriasAtendidas(e, acoes) ==
    /\ FatoresTempoCasa(e) # <<>> => TemAcao(acoes, AcoesTempoCasa)
    /\ FatoresPdi(e) # <<>> => TemAcao(acoes, AcoesPdi)
    /\ FatoresTreinamentos(e) # <<>> => TemAcao(acoes, AcoesTreinamentos)
    /\ FatoresAusencias(e) # <<>> => TemAcao(acoes, AcoesAusencias)
    /\ FatoresLinkedin(e) # <<>> => TemAcao(acoes, AcoesLinkedin)

\* C15: for every record, each factor category present in the output of
\* identificar_fatores_risco contributes at least one recommendation of that
\* category, and the fallback recommendations are returned only when the
\* factor list contains no risk factor of any category
CadaCategoriaTemRecomendacao ==
    Pontuado(employee) =>
        /\ CategoriasAtendidas(employee, Val(employee.acoes_recomendadas))
        /\ Val(employee.acoes_recomendadas) = RecomendacoesPadrao
              => FatoresDeRisco(employee) = <<>>

\* C16: for every record and every category (tenure, PDI, training,
\* absences, profile signal), a factor of that category is reported only if
\* that category's contribution to the score is strictly positive
FatorSoComContribuicao ==
    Pontuado(employee) =>
        /\ FatoresTempoCasa(employee) # <<>>
              => ScoreTempoCasa(employee.tempo_casa) > 0
        /\ FatoresPdi(employee) # <<>> => ScorePdi(employee) > 0
        /\ FatoresTreinamentos(employee) # <<>>
              => ScoreTreinamentos(employee) > 0
        /\ FatoresAusencias(employee) # <<>> => ScoreAusencias(employee) > 0
        /\ FatoresLinkedin(employee) # <<>> => ScoreLinkedin(employee) > 0

\* C17: processar_planilha run twice on the same rows gives the same
\* records in the same order, with the same scores, factor lists and
\* recommendation lists, and the same row errors; the DataFrame the first
\* run leaves is the one the second run leaves
SegundaChamadaIgual ==
    ~IsNone(retorno) =>
        /\ Val(retorno).employees = Val(resultado).employees
        /\ Val(retorno).st = Val(resultado).st
        /\ Val(retorno).columns = Val(resultado).columns
        /\ Val(df_in).columns = Val(retorno).columns

\* two runs over a sheet of two rows: one row scored and one row that failed
\* coercion, both times
DuasChamadasComLinhaRuim ==
    /\ ~IsNone(retorno)
    /\ Len(Val(df_in).rows) = 2
    /\ Len(Val(retorno).employees) = 1
    /\ Len(Val(retorno).st) = 1
    /\ Val(retorno).st[1].tipo = "warning"
    /\ ~IsNone(Val(retorno).employees[1].fatores_risco)

\* the Employee Record constraints: tenure >= 0, counts >= 0, name not empty
RegistroValido(e) ==
    /\ e.tempo_casa >= 0
    /\ e.num_treinamentos >= 0
    /\ e.num_ausencias >= 0
    /\ e.nome # <<>>

\* the cell holds a negative number, or (a count) a number with a fraction
Negativo(cel) == cel.t \in {"int", "float"} /\ cel.v < 0
Fracionario(cel) == cel.t = "float" /\ cel.v % Ano # 0

\* the row's values violate the constraints
LinhaViola(columns, row) ==
    \/ Negativo(Celula(columns, row, <<"tempo", "_", "casa">>))
    \/ Negativo(Celula(columns, row, <<"num", "_", "treinamentos">>))
    \/ Negativo(Celula(columns, row, <<"num", "_", "ausencias">>))
    \/ Fracionario(Celula(columns, row, <<"num", "_", "treinamentos">>))
    \/ Fracionario(Celula(columns, row, <<"num", "_", "ausencias">>))
    \/ Strip(ToStr(Celula(columns, row, <<"nome">>))) = <<>>

RegistrosValidos(df, r) ==
    /\ \A k \in 1..Len(r.employees) : RegistroValido(r.employees[k])
    /\ \A i \in 1..Len(df.rows) :
          LinhaViola(df.columns, df.rows[i]) =>
              /\ processar_planilha(SoALinha(df, i)).employees = <<>>
              /\ Len(processar_planilha(SoALinha(df, i)).st) = 1

\* C18: every record returned by processar_planilha has tenure >= 0,
\* non-negative training and absence counts and a non-empty name; a row
\* whose values violate this (negative tenure or counts, fractional count,
\* empty name) is reported as a row error and produces no record
SoRegistrosValidos ==
    (~IsNone(resultado) /\ TodasPresentes(Val(df_in).columns)) =>
        RegistrosValidos(Val(df_in), Val(resultado))

\* what the tenure adds to the stored score: the score less the other four
\* contributions
ParcelaTempoCasa(e) ==
    e.score_risco
        - (ScorePdi(e) + ScoreTreinamentos(e) + ScoreAusencias(e)
           + ScoreLinkedin(e))

\* the band values of lines 201-209 at tenure t, the bands being half-open:
\* a tenure equal to a threshold belongs to the band above it
FaixaTempoCasa(t) ==
    CASE t < tempo_casa_critico -> 60 * peso_tempo_casa
      [] t >= tempo_casa_critico /\ t < tempo_casa_risco ->
            Max(40 - ((t * 20) \div Ano), 10) * peso_tempo_casa
      [] t >= tempo_casa_risco /\ t < tempo_casa_estavel ->
            15 * peso_tempo_casa
      [] t >= tempo_casa_estavel -> 0

\* C19: the tenure sub-score is banded with strict `<` upper bounds, first
\* match wins: a tenure equal to tempo_casa_critico, tempo_casa_risco or
\* tempo_casa_estavel falls in the more senior band, a tenure at or above
\* tempo_casa_estavel contributes zero, and the sub-score is non-increasing
\* in tenure from 0 on
TempoCasaEmFaixas ==
    Pontuado(employee) =>
        /\ ParcelaTempoCasa(employee) = FaixaTempoCasa(employee.tempo_casa)
        /\ employee.tempo_casa >= tempo_casa_estavel
              => ParcelaTempoCasa(employee) = 0
        /\ \A u \in 0..employee.tempo_casa :
              ScoreTempoCasa(u) >= ParcelaTempoCasa(employee)

\* a record with a tenure of exactly tempo_casa_critico, scored: it gets the
\* second band's 35 points times the weight, not the first band's 60
TempoCasaNoLimiteCritico ==
    /\ Pontuado(employee)
    /\ employee.tempo_casa = tempo_casa_critico
    /\ ParcelaTempoCasa(employee) = 35 * peso_tempo_casa

\* what the PDI adds to the stored score: the score less the other four
\* contributions
ParcelaPdi(e) ==
    e.score_risco
        - (ScoreTempoCasa(e.tempo_casa) + ScoreTreinamentos(e)
           + ScoreAusencias(e) + ScoreLinkedin(e))

\* C20: the PDI contribution is zero whenever participou_pdi is true; when
\* it is false the contribution is strictly positive and non-decreasing in
\* tenure (no shorter tenure without PDI contributes more)
PdiZeroOuCrescente ==
    Pontuado(employee) =>
        /\ employee.participou_pdi => ParcelaPdi(employee) = 0
        /\ ~employee.participou_pdi =>
              /\ ParcelaPdi(employee) > 0
              /\ \A u \in 0..employee.tempo_casa :
                    ScorePdi(ComTempoCasa(employee, u))
                        <= ParcelaPdi(employee)

\* a record of exactly one year without PDI, scored: the contribution is
\* the top value, 60 times the weight
SemPdiComUmAno ==
    /\ Pontuado(employee)
    /\ ~employee.participou_pdi
    /\ employee.tempo_casa = um_ano
    /\ ParcelaPdi(employee) = 60 * peso_pdi

\* C21: every established employee (tenure at or above 0.5 years) with zero
\* trainings receives the training sub-score maximum (50 times the weight),
\* strictly more than any new employee (tenure below 0.5 years) with zero
\* trainings; for equal training counts an established employee never
\* receives less than a new one
EstabelecidoSemTreinamentoNoMaximo ==
    (Pontuado(employee) /\ employee.tempo_casa >= meio_ano) =>
        /\ employee.num_treinamentos = 0 =>
              /\ ScoreTreinamentos(employee) = 50 * peso_treinamentos
              /\ \A u \in 0..(meio_ano - 1) :
                    ScoreTreinamentos(ComTempoCasa(employee, u))
                        < ScoreTreinamentos(employee)
        /\ \A u \in 0..(meio_ano - 1) :
              ScoreTreinamentos(ComTempoCasa(employee, u))
                  <= ScoreTreinamentos(employee)

\* the critical conditions together: tenure at or above tempo_casa_estavel,
\* no PDI, no training, absences at least 6 above ausencias_critico (where
\* the absence sub-score is at its cap)
CondicoesCriticas(e) ==
    /\ e.tempo_casa >= tempo_casa_estavel
    /\ ~e.participou_pdi
    /\ e.num_treinamentos = 0
    /\ e.num_ausencias >= ausencias_critico + 6

\* C22: when the critical conditions co-occur in one record,
\* calcular_score_risco adds a flat combination bonus, so that its result
\* (below the clamp) is strictly greater than the sum of the four weighted
\* sub-scores and the profile contribution
BonusDeCombinacao ==
    ( /\ Pontuado(employee)
      /\ CondicoesCriticas(employee)
      /\ employee.score_risco < 100 * Centesimos ) =>
        employee.score_risco
            > ScoreTempoCasa(employee.tempo_casa) + ScorePdi(employee)
                + ScoreTreinamentos(employee) + ScoreAusencias(employee)
                + ScoreLinkedin(employee)

\* 50 times the weight if ativo_recentemente plus 30 times the weight if
\* mudancas_frequentes
SinaisDePerfil(b) ==
    (IF b.ativo_recentemente THEN 50 * peso_linkedin ELSE 0)
        + (IF b.mudancas_frequentes THEN 30 * peso_linkedin ELSE 0)

\* the score of e differs from the score of sem, the same record without
\* bundle, by the bundle's signals alone
SoOsSinais(sem, e) ==
    /\ e.score_risco - sem.score_risco = SinaisDePerfil(Val(e.linkedin_data))
    /\ e.score_risco >= sem.score_risco
    /\ ( /\ ~Val(e.linkedin_data).ativo_recentemente
         /\ ~Val(e.linkedin_data).mudancas_frequentes )
          => e.score_risco = sem.score_risco

\* C23: attaching a bundle to a scored record changes the score by
\* 50*peso_linkedin if ativo_recentemente plus 30*peso_linkedin if
\* mudancas_frequentes, whatever the tenure, PDI, trainings and absences; a
\* bundle with both flags false leaves the score unchanged, and the score
\* never gets lower
BundleSomaSoOsSinais ==
    [][ ( /\ Pontuado(employee)
          /\ ~TemLinkedin(employee)
          /\ TemLinkedin(employee') )
            => SoOsSinais(employee, employee') ]_vars

\* a record with a positive score of its own, with a bundle of both signals
\* attached: the score is 20.0 above the score without the bundle
BundleComDoisSinais ==
    /\ Pontuado(employee)
    /\ TemLinkedin(employee)
    /\ Val(employee.linkedin_data).ativo_recentemente
    /\ Val(employee.linkedin_data).mudancas_frequentes
    /\ ~employee.participou_pdi
    /\ employee.num_ausencias > ausencias_critico
    /\ employee.score_risco
          = calcular_score_risco([employee EXCEPT !.linkedin_data = None])
              + 80 * peso_linkedin

\* C24: for every score in [0, 100], the high/medium/low membership used
\* by the dashboard counters, the analysis-page filter, the export summary
\* and the sidebar statistic equals get_risk_level(score)
FiltroIgualAoNivel ==
    ~IsNone(retorno) => Val(retorno) = nivel

\* the page shows the outcome of a spreadsheet attempt without the success
\* message of line 703: no record was produced
TentativaSemRegistros(pag) ==
    /\ pag.op = "planilha"
    /\ \A k \in 1..Len(pag.st) : pag.st[k].tipo # "success"

\* C25: a spreadsheet processing attempt that produces zero records (schema
\* error, or every row failing coercion) leaves st.session_state.employees
\* and data_loaded as they were
TentativaVaziaNadaMuda ==
    [][ TentativaSemRegistros(pagina') => session_state' = session_state ]_vars

\* a batch is loaded, and then an attempt whose only row fails coercion
\* ends with the error of line 706: the batch is still there
LoteMantidoAposTentativaVazia ==
    /\ TentativaSemRegistros(pagina)
    /\ Len(pagina.st) = 2
    /\ pagina.st[1].tipo = "warning"
    /\ pagina.st[2].tipo = "error"
    /\ session_state.employees # <<>>
    /\ session_state.data_loaded

\* C26: a PDF that did not auto-match and that the user associates with an
\* employee by the confirm button is part of the associated set on the
\* following render (and so is processed by "Processar Todos os PDFs
\* Associados")
AssociacaoManualMantida ==
    pagina.op = "associar" =>
        \E n \in 1..Len(pagina.pdf_employee_mapping) :
            pagina.pdf_employee_mapping[n] = pagina.manual[1]

\* C27: under SCORING_CONFIG the sum computed by calcular_score_risco never
\* exceeds 51.5, so min(score, 100) never alters a result, and
\* get_risk_level of the score is never "Alto"
SomaAteCinquentaEUmEMeio ==
    (scoring_config = SCORING_CONFIG /\ Pontuado(employee)) =>
        /\ 10 * ScoreSoma(employee) <= 515 * Centesimos
        /\ employee.score_risco = ScoreSoma(employee)
        /\ get_risk_level(employee.score_risco) # "Alto"
        /\ nivel # "Alto"

\* the record that reaches 51.5 (tenure below 3 months, no PDI, no training,
\* absences at the cap, both profile signals), classified "Medio"
CinquentaEUmEMeioClassificado ==
    /\ scoring_config = SCORING_CONFIG
    /\ Pontuado(employee)
    /\ TemLinkedin(employee)
    /\ 10 * employee.score_risco = 515 * Centesimos
    /\ score_in = employee.score_risco
    /\ nivel = "Medio"

\* the texts of each category of factor
TextosTempoCasa ==
    { FatorMuitoNovo.texto, FatorPeriodoRisco.texto, FatorEstabilizacao.texto }
TextosPdi ==
    { FatorPdiNovo.texto, FatorPdiRecomendado.texto, FatorPdiCritico.texto }
TextosTreinamentos ==
    { FatorNenhumTreinamento.texto, FatorDeficit(0, 0).texto }
TextosAusencias ==
    { FatorAusenciasExcessivas(0).texto, FatorAusenciasModeradas(0).texto }
TextosLinkedin ==
    { FatorLinkedinAtivo.texto, FatorLinkedinMudancas.texto,
      FatorLinkedinCertificacoes.texto }

\* some entry of fatores has one of the texts
TemFator(fatores, textos) ==
    \E k \in 1..Len(fatores) : fatores[k].texto \in textos

ContribuicoesExplicadas(e, fatores) ==
    /\ ScoreTempoCasa(e.tempo_casa) > 0 => TemFator(fatores, TextosTempoCasa)
    /\ ScorePdi(e) > 0 => TemFator(fatores, TextosPdi)
    /\ ScoreTreinamentos(e) > 0 => TemFator(fatores, TextosTreinamentos)
    /\ ScoreAusencias(e) > 0 => TemFator(fatores, TextosAusencias)
    /\ ScoreLinkedin(e) > 0 => TemFator(fatores, TextosLinkedin)
    /\ e.score_risco > 0 => fatores # <<FatorPerfilEstavel>>

\* C28: for every record and every category, if the category adds a positive
\* amount in calcular_score_risco then identificar_fatores_risco returns at
\* least one factor of that category; a record with score > 0 never has only
\* the "Perfil estavel" entry
ContribuicaoPositivaTemFator ==
    Pontuado(employee) =>
        ContribuicoesExplicadas(employee, Val(employee.fatores_risco))

\* a record to whose score all five categories contribute, with a factor
\* listed for each
CincoCategoriasContribuem ==
    /\ Pontuado(employee)
    /\ ScoreTempoCasa(employee.tempo_casa) > 0
    /\ ScorePdi(employee) > 0
    /\ ScoreTreinamentos(employee) > 0
    /\ employee.tempo_casa < meio_ano
    /\ ScoreAusencias(employee) > 0
    /\ ScoreLinkedin(employee) > 0
    /\ Len(Val(employee.fatores_risco)) >= 5

\* a page that shows averages or percentages
PaginasComMedias == { "dashboard", "export", "sidebar" }

\* C29: in every reachable session state data_loaded is true if and only if
\* st.session_state.employees is non-empty, and every average or percentage
\* (dashboard, export, sidebar) is computed only on a non-empty list, so
\* that no division by zero happens
DataLoadedSseHaEmployees ==
    /\ session_state.data_loaded <=> session_state.employees # <<>>
    /\ pagina.op \in PaginasComMedias =>
          \A k \in 1..Len(pagina.st) :
              pagina.st[k].tipo = "metric" =>
                  /\ pagina.st[k].exc = ""
                  /\ session_state.employees # <<>>

\* the dashboard of a loaded batch of two shows the average score
MediaDeDoisNoDashboard ==
    /\ pagina.op = "dashboard"
    /\ session_state.data_loaded
    /\ Len(session_state.employees) = 2
    /\ Len(pagina.st) = 1
    /\ pagina.st[1].tipo = "metric"
    /\ pagina.st[1].valor
          = (session_state.employees[1].score_risco
             + session_state.employees[2].score_risco) \div 2

===========================================================================
